---- MODULE Spec2Model ----
(***************************************************************************)
(* A model of the class MVMOO of MVMOO/multi_mixed_optimiser.py:           *)
(*   - is_pareto_efficient, the non-dominated filter, step by step;        *)
(*   - the instance (models, currentfront, constrainedmodels, contextual)  *)
(*     under calls of multinextcondition, generatemodels,                  *)
(*     EIMmixedoptimiser and AEIMmixedoptimiser.                           *)
(* Costs are integers: one unit is 0.5, so that the matrix of Scenario A   *)
(* ([[1,2],[2,1],[1.5,1.5],[3,3],[0.5,0.5]]) is a matrix of integers; only *)
(* the order of the entries matters to the filter.                         *)
(***************************************************************************)
EXTENDS Integers, Sequences, FiniteSets, TLC

\* ---------------------------------------------------------------- bounds
MaxPoints == 3      \* rows of a cost matrix drawn at Init
MaxCost == 2        \* entries of a cost matrix are 0..MaxCost
NumCosts == 2       \* columns of a cost matrix
MaxCalls == 2       \* method calls made on one instance
MaxCols == 2        \* columns of a constraint matrix, or of Y in a direct generatemodels call
MaxQual == 1        \* num_qual is 0..MaxQual
MaxCoord == 1       \* a coordinate of a point is 0..MaxCoord
MaxAcq == 2         \* an acquisition value is 0..MaxAcq

\* ------------------------------------------------------ program constants
num_obj == 2        \* columns of Y (the hypervolume criterion reshapes r to (1,2,1))
num_quant == 1      \* continuous coordinates, the leading ones
DefaultVariance == 10   \* generatemodels' default variance=1.0, in tenths
LowVariance == 1        \* the sanity refit's variance=0.1, in tenths

VARIABLES
    costs0,             \* is_pareto_efficient: the argument `costs` as passed
    return_mask,        \* is_pareto_efficient: the argument `return_mask`
    costs,              \* is_pareto_efficient: local `costs` (shrinks)
    is_efficient,       \* is_pareto_efficient: local `is_efficient` (0-based row indices)
    next_point_index,   \* is_pareto_efficient: local `next_point_index` (0-based)
    ppc,                \* is_pareto_efficient: "loop" | "done"
    pareto_result,      \* is_pareto_efficient: the value returned
    num_qual,           \* self.num_qual
    k_type,             \* self.k_type
    models,             \* self.models
    constrainedmodels,  \* self.constrainedmodels
    currentfront,       \* self.currentfront
    Yscaled,            \* self.Yscaled
    contextual,         \* self.contextual
    ncalls,             \* calls made so far; call n works on the data set (X, Y) number n
    op,                 \* the method running or last run
    pc,                 \* its position: "idle", a line of multinextcondition, "done", "error"
    args,               \* its arguments
    local,              \* multinextcondition's locals
    ret                 \* what the last call returned or raised

pvars == <<costs0, return_mask, costs, is_efficient, next_point_index, ppc, pareto_result>>

fields == <<num_qual, k_type, models, constrainedmodels, currentfront, Yscaled, contextual>>

frame == <<ncalls, op, pc, args, local, ret>>

vars == <<pvars, fields, frame>>

\* ------------------------------------------------------- sequence helpers
Range(s) == {s[i] : i \in 1..Len(s)}

RECURSIVE SelectMask(_, _)
\* s[mask] of numpy: the entries of s where the boolean mask is true, in order
SelectMask(s, mask) ==
    IF s = <<>> THEN <<>>
    ELSE (IF Head(mask) THEN <<Head(s)>> ELSE <<>>) \o SelectMask(Tail(s), Tail(mask))

RECURSIVE CountTrue(_)
\* np.sum of a boolean vector
CountTrue(mask) ==
    IF mask = <<>> THEN 0
    ELSE (IF Head(mask) THEN 1 ELSE 0) + CountTrue(Tail(mask))

\* ------------------------------------------------- is_pareto_efficient
\* the matrix of Scenario A, in units of 0.5
ScenarioA == << <<2, 4>>, <<4, 2>>, <<3, 3>>, <<6, 6>>, <<1, 1>> >>

CostRows == [1..NumCosts -> 0..MaxCost]

CostMatrices == UNION {[1..n -> CostRows] : n \in 0..MaxPoints} \cup {ScenarioA}

\* the mask without line 53: the pivot row is not forced to stay
nondominated_point_mask_pivot_dropped(c, npi) ==
    [j \in 1..Len(c) |-> \E k \in 1..Len(c[j]) : c[j][k] < c[npi + 1][k]]

\* np.any(costs < costs[next_point_index], axis=1), then mask[next_point_index] = True
nondominated_point_mask(c, npi) ==
    [j \in 1..Len(c) |->
        \/ \E k \in 1..Len(c[j]) : c[j][k] < c[npi + 1][k]
        \/ j = npi + 1]

\* is_efficient_mask: zeros(n_points), then set at the indices of is_efficient
is_efficient_mask(n_points, eff) ==
    [i \in 1..n_points |-> (i - 1) \in Range(eff)]

\* ------------------------------------------------------ Python values
\* an attribute holding a model bank that was never assigned
Unset == [kind |-> "unset", list |-> <<>>]

\* an attribute derived from a data set (Yscaled, currentfront), unassigned or
\* computed from the data set number data
NoData == [set |-> FALSE, data |-> 0]

FromData(n) == [set |-> TRUE, data |-> n]

\* self.contextual: unassigned, or meanvar of the models of data set mdata
\* divided by the front of data set fdata
NoContextual == [set |-> FALSE, mdata |-> 0, fdata |-> 0]

\* the value None
PyNone == [kind |-> "None", list |-> <<>>]

\* a list of fitted models
PyList(l) == [kind |-> "list", list |-> l]

\* constraints=False, or a constraint matrix with ncol columns
NoConstraints == [is_false |-> TRUE, ncol |-> 0]

ConstraintMatrix(k) == [is_false |-> FALSE, ncol |-> k]

NoArgs == [constraints |-> NoConstraints, values |-> "None", method |-> "EIM",
           mode |-> "euclidean", algorithm |-> "Random Local", ncol |-> 0,
           scale |-> TRUE, variance |-> DefaultVariance]

NoLocal == [vi |-> 1, nan |-> FALSE, refits |-> 0, attempts |-> <<>>,
            fmax |-> <<>>, xmax |-> <<>>, acq |-> <<>>, flat |-> TRUE]

NoRet == [kind |-> "none", exc |-> "", fun |-> <<>>, x |-> <<>>, acq |-> <<>>,
          flat |-> TRUE, swapped |-> FALSE, ctx |-> FALSE, sampled |-> FALSE,
          ncon |-> 0, bank |-> Unset, refine |-> <<>>]

\* the instance right after __init__ (lines 11-18), no call made
InstanceIdle ==
    /\ num_qual \in 0..MaxQual
    /\ k_type = "matern3"
    /\ models = Unset
    /\ constrainedmodels = Unset
    /\ currentfront = NoData
    /\ Yscaled = NoData
    /\ contextual = NoContextual
    /\ ncalls = 0
    /\ op = "none"
    /\ pc = "idle"
    /\ args = NoArgs
    /\ local = NoLocal
    /\ ret = NoRet

InitPareto ==
    /\ InstanceIdle
    /\ num_qual = 0
    /\ costs0 \in CostMatrices
    /\ return_mask \in BOOLEAN
    /\ costs = costs0
    /\ is_efficient = [i \in 1..Len(costs0) |-> i - 1]
    /\ next_point_index = 0
    /\ ppc = "loop"
    /\ pareto_result = <<>>

\* one iteration of the while loop
is_pareto_efficient_loop ==
    /\ ppc = "loop"
    /\ next_point_index < Len(costs)
    /\ LET mask == nondominated_point_mask(costs, next_point_index) IN
        /\ is_efficient' = SelectMask(is_efficient, mask)
        /\ costs' = SelectMask(costs, mask)
        /\ next_point_index' = CountTrue(SubSeq(mask, 1, next_point_index)) + 1
    /\ UNCHANGED <<costs0, return_mask, ppc, pareto_result, fields, frame>>

\* the loop condition fails: build the mask or return the indices
is_pareto_efficient_return ==
    /\ ppc = "loop"
    /\ ~(next_point_index < Len(costs))
    /\ ppc' = "done"
    /\ pareto_result' = IF return_mask
                        THEN is_efficient_mask(Len(costs0), is_efficient)
                        ELSE is_efficient
    /\ UNCHANGED <<costs0, return_mask, costs, is_efficient, next_point_index, fields, frame>>

NextPareto ==
    \/ is_pareto_efficient_loop
    \/ is_pareto_efficient_return

SpecPareto == InitPareto /\ [][NextPareto]_vars

\* ------------------------------------------------------- generatemodels
\* the variance fitmodel falls back to when line 35 passes none
FitmodelVariance == 0

\* one fitted model: which data set and column it was fitted to, and how
Model(data, of, col, kt, variance, scaled) ==
    [data |-> data, of |-> of, col |-> col, k_type |-> kt,
     variance |-> variance, scaled |-> scaled]

\* generatemodels on a matrix `of` ("Y" or "constraints") of data set `data`
\* with ncol columns. failAt = i > 0: fitmodel raises on column i.
\* scale=True fits every column (lines 27-33); scale=False returns from inside
\* the loop after the first column (lines 34-37), or None when ncol = 0.
generatemodels(data, of, ncol, scale, variance, kt, failAt) ==
    IF scale
    THEN [raised |-> failAt \in 1..ncol,
          value |-> PyList([i \in 1..ncol |-> Model(data, of, i, kt, variance, TRUE)]),
          rescaled |-> TRUE]
    ELSE IF ncol = 0
    THEN [raised |-> FALSE, value |-> PyNone, rescaled |-> FALSE]
    ELSE [raised |-> failAt = 1,
          value |-> PyList(<<Model(data, of, 1, kt, FitmodelVariance, FALSE)>>),
          rescaled |-> FALSE]

\* ------------------------------------------------ the mixed optimisers
Coord == 0..MaxCoord

AcqVals == 0..MaxAcq

\* input_dim: the length of a point
input_dim == num_quant + num_qual

\* the mixed domain the sampler draws from
Domain == [1..input_dim -> Coord]

Min2(a, b) == IF a < b THEN a ELSE b

Max2(a, b) == IF a > b THEN a ELSE b

\* a Python slice bound k on a sequence of length n
PyIndex(n, k) == IF k < 0 THEN Max2(n + k, 0) ELSE Min2(k, n)

\* s[k:]
SliceFrom(s, k) == SubSeq(s, PyIndex(Len(s), k) + 1, Len(s))

\* s[:k]
SliceTo(s, k) == SubSeq(s, 1, PyIndex(Len(s), k))

\* what a call of a mixed optimiser ends in. fun, x: the values and points
\* returned; acq: the acquisition value at each returned point; flat: x is a
\* 1-D array; swapped: the tuple is (x, fun); ctx: self.contextual was
\* assigned; sampled: candidates were drawn or a model was queried; refine:
\* one Refinement per call of the local optimiser that was made.
Out(kind, exc, fun, x, acq, flat, swapped, ctx, sampled, nc) ==
    [kind |-> kind, exc |-> exc, fun |-> fun, x |-> x, acq |-> acq, flat |-> flat,
     swapped |-> swapped, ctx |-> ctx, sampled |-> sampled, ncon |-> nc,
     bank |-> Unset, refine |-> <<>>]

\* one call of stats.optimize.minimize: the argmax candidate of the global
\* phase, the start point x0 and the qualitative part handed to the wrapper
Refinement(cand, x0, qual) == [cand |-> cand, x0 |-> x0, qual |-> qual]

Raise(exc, ctx, sampled) == Out("raise", exc, <<>>, <<>>, <<>>, TRUE, FALSE, ctx, sampled, 0)

\* stats.optimize.minimize(wrapper, x0, args=(qual, ...), bounds=bndlist,
\* method='SLSQP') with bndlist of num_quant entries. The wrapper evaluates the
\* NEGATED acquisition at concatenate(x, qual); result.fun is the wrapper's
\* value at result.x. (xmax, fmax): a point whose acquisition value is known.
minimize(x0, qual, xmax, fmax) ==
    IF Len(x0) # num_quant
    THEN {[kind |-> "raise", exc |-> "IndexError", x |-> <<>>, fun |-> 0, acq |-> 0]}
    ELSE IF Len(x0) + Len(qual) # input_dim
    THEN {[kind |-> "raise", exc |-> "ValueError", x |-> <<>>, fun |-> 0, acq |-> 0]}
    ELSE {[kind |-> "ok", exc |-> "", x |-> x, fun |-> 0 - v, acq |-> v] :
            <<x, v>> \in {xv \in [1..num_quant -> Coord] \X AcqVals :
                            (xv[1] \o qual = xmax) => xv[2] = fmax}}

\* lines 371-376 and 435-440: refine, then return by `values`
LocalRefine(xmax, fmax, x0, qual, values, ctx, nc) ==
    {[(IF r.kind = "raise" THEN Raise(r.exc, ctx, TRUE)
       ELSE IF values = "None"
       THEN Out("return", "", <<r.fun>>, <<r.x \o qual>>, <<r.acq>>, TRUE, FALSE, ctx, TRUE, nc)
       ELSE Out("return4", "", <<fmax>>, <<xmax>>, <<fmax>>, TRUE, FALSE, ctx, TRUE, nc))
      EXCEPT !.refine = <<Refinement(xmax, x0, qual)>>] :
        r \in minimize(x0, qual, xmax, fmax)}

\* lines 320-325, 409-414: the best candidate of the batch, unrefined
BestOfBatch(values, ctx, nc) ==
    {Out(IF values = "None" THEN "return" ELSE "return4",
         "", <<v>>, <<x>>, <<v>>, TRUE, FALSE, ctx, TRUE, nc) :
        <<x, v>> \in Domain \X AcqVals}

\* the exception EIM / CEIM_Hypervolume ends in on the instance's fields, "" if none
AcquisitionError(constraints) ==
    IF ~currentfront.set THEN "AttributeError"
    ELSE IF models.kind # "list" THEN "AttributeError"
    ELSE IF constraints.is_false THEN ""
    ELSE IF constrainedmodels.kind = "unset" THEN "AttributeError"
    ELSE IF constrainedmodels.kind = "None" THEN "TypeError"
    ELSE IF Len(constrainedmodels.list) = 0 THEN "ValueError"
    ELSE ""

\* ncon of CEIM_Hypervolume (line 178): the feasibility probabilities multiplied
ncon(constraints) ==
    IF constraints.is_false \/ constrainedmodels.kind # "list" THEN 0
    ELSE Len(constrainedmodels.list)

\* lines 333-358, mode 'all' of 'Random Local', unconstrained
RandomLocalAll ==
    UNION {
      LET qual == SliceFrom(xE, 0 - num_qual) \o SliceFrom(xH, 0 - num_qual)
          r0 == minimize(SliceTo(xE, 0 - num_qual), <<qual[1]>>, xE, fE)
          r1 == minimize(SliceTo(xH, 0 - num_qual), <<qual[2]>>, xH, fH)
          m0 == Refinement(xE, SliceTo(xE, 0 - num_qual), <<qual[1]>>)
          m1 == Refinement(xH, SliceTo(xH, 0 - num_qual), <<qual[2]>>)
      IN {IF a.kind = "raise"
          THEN [Raise(a.exc, FALSE, TRUE) EXCEPT !.refine = <<m0>>]
          ELSE IF b.kind = "raise"
          THEN [Raise(b.exc, FALSE, TRUE) EXCEPT !.refine = <<m0, m1>>]
          ELSE [Out("return", "", <<a.fun, b.fun>>,
                    <<a.x \o <<qual[1]>>, b.x \o <<qual[2]>> >>,
                    <<a.acq, b.acq>>, FALSE, FALSE, FALSE, TRUE, 0)
                EXCEPT !.refine = <<m0, m1>>] :
            <<a, b>> \in r0 \X r1}
      : <<xE, fE, xH, fH>> \in Domain \X AcqVals \X Domain \X AcqVals }

\* EIMmixedoptimiser(constraints, algorithm, values, mode), lines 308-379
EIMmixedoptimiser(constraints, algorithm, values, mode) ==
    IF algorithm \notin {"Random", "Random Local"}
    THEN {Raise("NotImplementedError", FALSE, FALSE)}
    ELSE IF AcquisitionError(constraints) # ""
    THEN {Raise(AcquisitionError(constraints), FALSE, TRUE)}
    ELSE IF algorithm = "Random"
    THEN BestOfBatch(values, FALSE, ncon(constraints))
         \cup (IF mode = "all" /\ constraints.is_false
               THEN {Raise("IndexError", FALSE, TRUE)} ELSE {})
    ELSE IF mode = "all"
    THEN (IF constraints.is_false THEN RandomLocalAll
          ELSE {Raise("IndexError", FALSE, TRUE)})
    ELSE UNION {LocalRefine(xmax, fmax, SliceTo(xmax, num_quant),
                            SliceFrom(xmax, num_quant), values, FALSE, ncon(constraints)) :
                <<xmax, fmax>> \in Domain \X AcqVals}

\* the value line 398 assigns to self.contextual
NewContextual == [set |-> TRUE, mdata |-> models.list[1].data, fdata |-> currentfront.data]

\* AEIMmixedoptimiser(constraints, algorithm, values), lines 383-507
AEIMmixedoptimiser(constraints, algorithm, values) ==
    IF models.kind # "list" \/ ~currentfront.set
    THEN {Raise("AttributeError", FALSE, TRUE)}
    ELSE IF algorithm = "Random"
    THEN BestOfBatch(values, TRUE, 0)
    ELSE IF algorithm = "Random Local"
    THEN (IF constraints.is_false
          THEN UNION {LocalRefine(xmax, fmax, SliceTo(xmax, 0 - num_qual),
                                  SliceFrom(xmax, 0 - num_qual), values, TRUE, 0) :
                      <<xmax, fmax>> \in Domain \X AcqVals}
          ELSE {Raise("NotImplementedError", TRUE, TRUE)})
    ELSE IF algorithm \in {"SHGO", "DE"}
    THEN (IF num_qual < 1
          THEN {Out("return", "", <<v>>, <<x>>, <<v>>, TRUE, TRUE, TRUE, TRUE, 0) :
                    <<x, v>> \in Domain \X AcqVals}
          ELSE {Out("return", "", <<0 - v>>, <<x>>, <<v>>, TRUE, FALSE, TRUE, TRUE, 0) :
                    <<x, v>> \in Domain \X AcqVals})
    ELSE {Out("returnNone", "", <<>>, <<>>, <<>>, TRUE, FALSE, TRUE, TRUE, 0)}

\* ------------------------------------------------- multinextcondition
Constraints == {NoConstraints} \cup {ConstraintMatrix(k) : k \in 1..MaxCols}

Values == {"None", "given"}

Methods == {"EIM", "AEIM"}

Modes == {"euclidean", "hypervolume", "all"}

Algorithms == {"Random", "Random Local", "SHGO", "DE", "Simplical", "Bogus"}

\* the variances of line 524, in tenths
Ladder == <<1, 10, 20, 100>>

\* one fit attempt of the retry ladder, for C11's record of the call
Attempt(kt, variance, ok) == [k_type |-> kt, variance |-> variance, ok |-> ok]

\* np.any(means == np.nan), line 536: `means` is a Python list, and a list
\* compared with a float is False whatever it holds (and NaN equals nothing)
np_any_means_eq_nan(means) == FALSE

\* the rows of np.unique(xmax.round(6), axis=0) for two rows: sorted, distinct
LexLess(a, b) ==
    \E i \in 1..Len(a) : a[i] < b[i] /\ \A j \in 1..(i - 1) : a[j] = b[j]

unique_rows(a, b) ==
    IF a = b THEN <<a>> ELSE IF LexLess(a, b) THEN <<a, b>> ELSE <<b, a>>

\* the call enters multinextcondition with (X, Y) of data set ncalls + 1
multinextcondition_call ==
    /\ pc = "idle"
    /\ ncalls < MaxCalls
    /\ \E c \in Constraints, v \in Values, m \in Methods, md \in Modes :
        /\ args' = [NoArgs EXCEPT !.constraints = c, !.values = v, !.method = m, !.mode = md]
        /\ pc' = IF c.is_false THEN "l515" ELSE "l552"
    /\ ncalls' = ncalls + 1
    /\ op' = "multinextcondition"
    /\ local' = NoLocal
    /\ ret' = NoRet
    /\ UNCHANGED <<pvars, fields>>

\* lines 514-517: first attempt, kernel matern3
multinextcondition_matern3 ==
    /\ pc = "l515"
    /\ k_type' = "matern3"
    /\ \E failAt \in 0..num_obj :
        LET r == generatemodels(ncalls, "Y", num_obj, TRUE, DefaultVariance, "matern3", failAt) IN
        /\ Yscaled' = FromData(ncalls)
        /\ models' = IF r.raised THEN models ELSE r.value
        /\ pc' = IF r.raised THEN "l520" ELSE "l530"
        /\ local' = [local EXCEPT !.attempts = Append(@, Attempt("matern3", DefaultVariance, ~r.raised))]
    /\ UNCHANGED <<pvars, num_qual, constrainedmodels, currentfront, contextual, ncalls, op, args, ret>>

\* lines 519-522: second attempt, kernel matern5
multinextcondition_matern5 ==
    /\ pc = "l520"
    /\ k_type' = "matern5"
    /\ \E failAt \in 0..num_obj :
        LET r == generatemodels(ncalls, "Y", num_obj, TRUE, DefaultVariance, "matern5", failAt) IN
        /\ Yscaled' = FromData(ncalls)
        /\ models' = IF r.raised THEN models ELSE r.value
        /\ pc' = IF r.raised THEN "l524" ELSE "l530"
        /\ local' = [local EXCEPT !.attempts = Append(@, Attempt("matern5", DefaultVariance, ~r.raised))]
    /\ UNCHANGED <<pvars, num_qual, constrainedmodels, currentfront, contextual, ncalls, op, args, ret>>

\* lines 524-528: one iteration of the loop over the variances; the loop has
\* no break, so it goes on to the next variance after a success as well
multinextcondition_variance ==
    /\ pc = "l524"
    /\ \E failAt \in 0..num_obj :
        LET r == generatemodels(ncalls, "Y", num_obj, TRUE, Ladder[local.vi], k_type, failAt) IN
        /\ Yscaled' = FromData(ncalls)
        /\ models' = IF r.raised THEN models ELSE r.value
        /\ local' = [local EXCEPT !.vi = @ + 1,
                                  !.attempts = Append(@, Attempt(k_type, Ladder[local.vi], ~r.raised))]
    /\ pc' = IF local.vi = Len(Ladder) THEN "l530" ELSE "l524"
    /\ UNCHANGED <<pvars, num_qual, k_type, constrainedmodels, currentfront, contextual, ncalls, op, args, ret>>

\* line 530: the front of whatever self.Yscaled holds
multinextcondition_front ==
    /\ pc = "l530"
    /\ currentfront' = FromData(Yscaled.data)
    /\ pc' = "l532"
    /\ UNCHANGED <<pvars, num_qual, k_type, models, constrainedmodels, Yscaled, contextual,
                   ncalls, op, args, local, ret>>

\* lines 532-538: the sanity check on the predicted means
multinextcondition_sanity ==
    /\ pc = "l532"
    /\ IF models.kind # "list"
       THEN /\ pc' = "error"
            /\ ret' = Raise("AttributeError", FALSE, FALSE)
            /\ UNCHANGED <<models, Yscaled, local>>
       ELSE \E means \in [1..Len(models.list) -> {"finite", "nan"}], failAt \in 0..num_obj :
            LET r == generatemodels(ncalls, "Y", num_obj, TRUE, LowVariance, k_type, failAt)
                anynan == \E i \in 1..Len(means) : means[i] = "nan"
            IN IF np_any_means_eq_nan(means)
               THEN /\ Yscaled' = FromData(ncalls)
                    /\ models' = IF r.raised THEN models ELSE r.value
                    /\ pc' = IF r.raised THEN "error" ELSE "l540"
                    /\ ret' = IF r.raised THEN Raise("FitError", FALSE, TRUE) ELSE ret
                    /\ local' = [local EXCEPT !.nan = anynan, !.refits = @ + 1]
               ELSE /\ pc' = "l540"
                    /\ local' = [local EXCEPT !.nan = anynan]
                    /\ UNCHANGED <<models, Yscaled, ret>>
    /\ UNCHANGED <<pvars, num_qual, k_type, constrainedmodels, currentfront, contextual,
                   ncalls, op, args>>

\* lines 540-543: the acquisition and its refinement
multinextcondition_acquire ==
    /\ pc = "l540"
    /\ \E o \in (IF args.method = "AEIM"
                 THEN AEIMmixedoptimiser(args.constraints, "Random Local", "None")
                 ELSE EIMmixedoptimiser(args.constraints, "Random Local", "None", args.mode)) :
        /\ contextual' = IF o.ctx THEN NewContextual ELSE contextual
        /\ IF o.kind = "raise"
           THEN /\ pc' = "error"
                /\ ret' = o
                /\ UNCHANGED local
           ELSE /\ pc' = "l545"
                /\ local' = [local EXCEPT !.fmax = o.fun, !.xmax = o.x, !.acq = o.acq,
                                          !.flat = o.flat]
                /\ UNCHANGED ret
    /\ UNCHANGED <<pvars, num_qual, k_type, models, constrainedmodels, currentfront, Yscaled,
                   ncalls, op, args>>

\* lines 545-550: the result of an unconstrained call; no branch is taken when
\* values is not None, and the call goes on to line 552
multinextcondition_return ==
    /\ pc = "l545"
    /\ IF args.values = "None" /\ args.mode # "all"
       THEN /\ pc' = "done"
            /\ ret' = Out("return", "", local.fmax, local.xmax, local.acq, FALSE, TRUE,
                          FALSE, TRUE, 0)
       ELSE IF args.values = "None"
       THEN IF local.flat
            THEN /\ pc' = "error"
                 /\ ret' = Raise("IndexError", FALSE, TRUE)
            ELSE IF local.xmax[1] = local.xmax[2]
            THEN /\ pc' = "done"
                 /\ ret' = Out("return", "", <<local.fmax[1]>>, <<local.xmax[1]>>,
                               <<local.acq[1]>>, FALSE, TRUE, FALSE, TRUE, 0)
            ELSE /\ pc' = "done"
                 /\ ret' = Out("return", "", local.fmax,
                               unique_rows(local.xmax[1], local.xmax[2]),
                               local.acq, FALSE, TRUE, FALSE, TRUE, 0)
       ELSE /\ pc' = "l552"
            /\ UNCHANGED ret
    /\ UNCHANGED <<pvars, fields, ncalls, op, args, local>>

\* lines 552-553: the objective models and the front, outside any try
multinextcondition_refit ==
    /\ pc = "l552"
    /\ \E failAt \in 0..num_obj :
        LET r == generatemodels(ncalls, "Y", num_obj, TRUE, DefaultVariance, k_type, failAt) IN
        /\ Yscaled' = FromData(ncalls)
        /\ IF r.raised
           THEN /\ pc' = "error"
                /\ ret' = Raise("FitError", FALSE, FALSE)
                /\ UNCHANGED <<models, currentfront>>
           ELSE /\ pc' = "l554"
                /\ models' = r.value
                /\ currentfront' = FromData(ncalls)
                /\ UNCHANGED ret
    /\ UNCHANGED <<pvars, num_qual, k_type, constrainedmodels, contextual, ncalls, op, args, local>>

\* line 554: the constraint models, unscaled; np.shape(False) is (), which
\* line 25 cannot unpack
multinextcondition_constraintmodels ==
    /\ pc = "l554"
    /\ IF args.constraints.is_false
       THEN /\ pc' = "error"
            /\ ret' = Raise("ValueError", FALSE, FALSE)
            /\ UNCHANGED constrainedmodels
       ELSE \E failAt \in 0..1 :
            LET r == generatemodels(ncalls, "constraints", args.constraints.ncol, FALSE,
                                    DefaultVariance, k_type, failAt) IN
            IF r.raised
            THEN /\ pc' = "error"
                 /\ ret' = Raise("FitError", FALSE, FALSE)
                 /\ UNCHANGED constrainedmodels
            ELSE /\ pc' = "l556"
                 /\ constrainedmodels' = r.value
                 /\ UNCHANGED ret
    /\ UNCHANGED <<pvars, num_qual, k_type, models, currentfront, Yscaled, contextual,
                   ncalls, op, args, local>>

\* lines 556-558: the dispatch with algorithm 'Simplical' and the return
multinextcondition_simplical ==
    /\ pc = "l556"
    /\ \E o \in EIMmixedoptimiser(args.constraints, "Simplical", "None", "euclidean") :
        IF o.kind = "raise"
        THEN /\ pc' = "error"
             /\ ret' = o
        ELSE /\ pc' = "done"
             /\ ret' = IF args.values = "None"
                       THEN Out("return", "", o.fun, o.x, o.acq, FALSE, TRUE, FALSE, TRUE, o.ncon)
                       ELSE Out("returnNone", "", <<>>, <<>>, <<>>, TRUE, FALSE, FALSE, TRUE, 0)
    /\ UNCHANGED <<pvars, fields, ncalls, op, args, local>>

\* ------------------------------------------------------- direct calls
\* a caller runs EIMmixedoptimiser itself
call_EIMmixedoptimiser ==
    /\ pc = "idle"
    /\ ncalls < MaxCalls
    /\ \E c \in Constraints, a \in Algorithms, v \in Values, md \in Modes :
        /\ args' = [NoArgs EXCEPT !.constraints = c, !.algorithm = a, !.values = v, !.mode = md]
        /\ \E o \in EIMmixedoptimiser(c, a, v, md) :
            /\ ret' = o
            /\ pc' = IF o.kind = "raise" THEN "error" ELSE "done"
    /\ ncalls' = ncalls + 1
    /\ op' = "EIMmixedoptimiser"
    /\ local' = NoLocal
    /\ UNCHANGED <<pvars, fields>>

\* a caller runs AEIMmixedoptimiser itself
call_AEIMmixedoptimiser ==
    /\ pc = "idle"
    /\ ncalls < MaxCalls
    /\ \E c \in Constraints, a \in Algorithms, v \in Values :
        /\ args' = [NoArgs EXCEPT !.constraints = c, !.algorithm = a, !.values = v]
        /\ \E o \in AEIMmixedoptimiser(c, a, v) :
            /\ ret' = o
            /\ contextual' = IF o.ctx THEN NewContextual ELSE contextual
            /\ pc' = IF o.kind = "raise" THEN "error" ELSE "done"
    /\ ncalls' = ncalls + 1
    /\ op' = "AEIMmixedoptimiser"
    /\ local' = NoLocal
    /\ UNCHANGED <<pvars, num_qual, k_type, models, constrainedmodels, currentfront, Yscaled>>

\* a caller runs generatemodels itself on a matrix of ncol columns
call_generatemodels ==
    /\ pc = "idle"
    /\ ncalls < MaxCalls
    /\ \E n \in 1..MaxCols, sc \in BOOLEAN, var \in {LowVariance, DefaultVariance},
          failAt \in 0..MaxCols :
        LET r == generatemodels(ncalls + 1, "Y", n, sc, var, k_type, failAt) IN
        /\ failAt <= n
        /\ args' = [NoArgs EXCEPT !.ncol = n, !.scale = sc, !.variance = var]
        /\ Yscaled' = IF r.rescaled THEN FromData(ncalls + 1) ELSE Yscaled
        /\ pc' = IF r.raised THEN "error" ELSE "done"
        /\ ret' = IF r.raised THEN Raise("FitError", FALSE, FALSE)
                  ELSE [NoRet EXCEPT !.kind = "return", !.bank = r.value]
    /\ ncalls' = ncalls + 1
    /\ op' = "generatemodels"
    /\ local' = NoLocal
    /\ UNCHANGED <<pvars, num_qual, k_type, models, constrainedmodels, currentfront, contextual>>

\* the call is over: the caller has its result or its exception, the frame is gone
call_returns ==
    /\ pc \in {"done", "error"}
    /\ pc' = "idle"
    /\ op' = "none"
    /\ args' = NoArgs
    /\ local' = NoLocal
    /\ ret' = NoRet
    /\ UNCHANGED <<pvars, fields, ncalls>>

ParetoIdle ==
    /\ costs0 = <<>>
    /\ return_mask = TRUE
    /\ costs = <<>>
    /\ is_efficient = <<>>
    /\ next_point_index = 0
    /\ ppc = "done"
    /\ pareto_result = <<>>

Init == ParetoIdle /\ InstanceIdle

Next ==
    \/ multinextcondition_call
    \/ multinextcondition_matern3
    \/ multinextcondition_matern5
    \/ multinextcondition_variance
    \/ multinextcondition_front
    \/ multinextcondition_sanity
    \/ multinextcondition_acquire
    \/ multinextcondition_return
    \/ multinextcondition_refit
    \/ multinextcondition_constraintmodels
    \/ multinextcondition_simplical
    \/ call_EIMmixedoptimiser
    \/ call_AEIMmixedoptimiser
    \/ call_generatemodels
    \/ call_returns

Spec == Init /\ [][Next]_vars

\* the rows (1-based) the call selected, from either form of the result
Selected ==
    IF return_mask
    THEN {i \in 1..Len(costs0) : pareto_result[i]}
    ELSE {pareto_result[i] + 1 : i \in 1..Len(pareto_result)}

\* a dominates b (minimisation): a <= b in every component, a < b in one
Dominates(a, b) ==
    /\ \A k \in 1..Len(a) : a[k] <= b[k]
    /\ \E k \in 1..Len(a) : a[k] < b[k]

\* ------------------------------------------------------------- claims
\* C1: for every finite cost matrix, equal rows included, no row that
\* is_pareto_efficient returns is dominated by another returned row, and
\* every row it does not return is dominated by at least one returned row.
C1_ParetoCorrect ==
    ppc = "done" =>
        /\ \A i \in Selected : \A j \in Selected : ~Dominates(costs0[j], costs0[i])
        /\ \A i \in (1..Len(costs0)) \ Selected :
              \E j \in Selected : Dominates(costs0[j], costs0[i])

\* C2: when two or more equal rows are dominated by no row, every copy is
\* marked efficient (and its index is in the index list), not only the first.
C2_EqualRowsAllRetained ==
    ppc = "done" =>
        \A i \in 1..Len(costs0) :
            ( /\ \E j \in 1..Len(costs0) : j # i /\ costs0[j] = costs0[i]
              /\ \A j \in 1..Len(costs0) : ~Dominates(costs0[j], costs0[i]) )
            => i \in Selected

\* C3 as stated: for the matrix of Scenario A the mask is true exactly at the
\* indices 0, 1 and 4.
C3_ScenarioA_Original ==
    (ppc = "done" /\ costs0 = ScenarioA) =>
        /\ Selected = {1, 2, 5}
        /\ return_mask => pareto_result = <<TRUE, TRUE, FALSE, FALSE, TRUE>>

\* C3 amended: for the matrix of Scenario A the call selects row 4 alone (the
\* row [0.5,0.5] dominates every other row): the mask is true at index 4 and
\* false at 0..3, and the index list is [4].
C3_ScenarioA ==
    (ppc = "done" /\ costs0 = ScenarioA) =>
        IF return_mask
        THEN pareto_result = <<FALSE, FALSE, FALSE, FALSE, TRUE>>
        ELSE pareto_result = <<4>>

C3_Witness == ppc = "done" /\ costs0 = ScenarioA /\ return_mask

\* the fit ladder of the running call produced a model bank
FitSucceeded == \E i \in 1..Len(local.attempts) : local.attempts[i].ok

\* the algorithm names the dispatch of the method `o` has a branch for
Recognised(o) ==
    IF o = "EIMmixedoptimiser" THEN {"Random", "Random Local"}
    ELSE {"Random", "Random Local", "SHGO", "DE"}

\* C4: whenever a call of multinextcondition reaches the acquisition (line
\* 540), self.models and self.currentfront were both built during that call
\* from its (X, Y): no model bank of an earlier call meets this call's front,
\* also when every fit attempt of the call failed.
C4_ModelsAndFrontOfThisCall ==
    (op = "multinextcondition" /\ pc = "l540") =>
        /\ models.kind = "list"
        /\ \A i \in 1..Len(models.list) : models.list[i].data = ncalls
        /\ currentfront.set
        /\ currentfront.data = ncalls

\* C5: an unconstrained call of multinextcondition whose fit succeeded never
\* continues into the statements of the constrained path (lines 552-556),
\* whatever `values`, `method` and `mode` are.
C5_UnconstrainedNeverFallsThrough ==
    (op = "multinextcondition" /\ args.constraints.is_false /\ FitSucceeded) =>
        pc \notin {"l552", "l554", "l556"}

\* C6: a constrained call of multinextcondition ends in an error only when a
\* model fit failed: with all fits succeeding it returns (nextPoint, value).
C6_ConstrainedCallReturns ==
    (op = "multinextcondition" /\ ~args.constraints.is_false /\ pc = "error") =>
        ret.exc = "FitError"

\* C7: with algorithm 'Random Local' and values=None the value returned with
\* the refined point is the acquisition value at that point, not its negative.
C7_ReturnedValueIsAcquisition ==
    ( /\ op \in {"EIMmixedoptimiser", "AEIMmixedoptimiser"}
      /\ pc = "done"
      /\ args.algorithm = "Random Local"
      /\ args.values = "None"
      /\ ret.kind = "return" ) =>
        ret.fun = ret.acq

\* C8: generatemodels returns one model per column of its matrix, in column
\* order, with scale=True and with scale=False; the constraint bank the
\* controller builds has as many models as the constraint matrix has columns.
C8_OneModelPerColumn ==
    /\ (op = "generatemodels" /\ pc = "done") =>
            /\ ret.bank.kind = "list"
            /\ Len(ret.bank.list) = args.ncol
            /\ \A i \in 1..Len(ret.bank.list) : ret.bank.list[i].col = i
    /\ (op = "multinextcondition" /\ pc = "l556") =>
            /\ constrainedmodels.kind = "list"
            /\ Len(constrainedmodels.list) = args.constraints.ncol

\* C9: on an instance with models and a front, an algorithm name that the
\* dispatch of EIMmixedoptimiser or AEIMmixedoptimiser does not know ends the
\* call in NotImplementedError, before any sampling or prediction and with
\* self.contextual left as it was.
C9_UnknownAlgorithmFailsFast ==
    ( /\ op \in {"EIMmixedoptimiser", "AEIMmixedoptimiser"}
      /\ pc \in {"done", "error"}
      /\ args.algorithm \notin Recognised(op)
      /\ models.kind = "list"
      /\ currentfront.set ) =>
        /\ ret.kind = "raise"
        /\ ret.exc = "NotImplementedError"
        /\ ~ret.sampled
        /\ ~ret.ctx

\* C10: in an unconstrained call, when the acquisition is reached the sanity
\* check has refitted exactly once if a predicted mean was NaN, and not at
\* all if every predicted mean was finite.
C10_NanMeansForceOneRefit ==
    (op = "multinextcondition" /\ pc = "l540") =>
        local.refits = (IF local.nan THEN 1 ELSE 0)

\* the ladder as C11 lists it: kernel and variance (in tenths) of each rung
LadderRungs ==
    << <<"matern3", DefaultVariance>>, <<"matern5", DefaultVariance>> >>
    \o [i \in 1..Len(Ladder) |-> <<"matern5", Ladder[i]>>]

\* C11: in an unconstrained call the fit attempts are made in the order
\* matern3, matern5, variance 0.1, 1, 2, 10; an attempt is made only if every
\* earlier attempt of the call failed, and the model bank the acquisition
\* uses is the one of the first successful attempt.
C11_LadderStopsAtFirstSuccess ==
    (op = "multinextcondition" /\ args.constraints.is_false
        /\ pc \in {"l515", "l520", "l524", "l530", "l532", "l540"}) =>
        LET a == local.attempts IN
        /\ Len(a) <= Len(LadderRungs)
        /\ \A i \in 1..Len(a) : <<a[i].k_type, a[i].variance>> = LadderRungs[i]
        /\ \A i \in 1..Len(a) : \A j \in 1..Len(a) : i < j => ~a[i].ok
        /\ (pc = "l540" /\ FitSucceeded) =>
              LET f == CHOOSE i \in 1..Len(a) : a[i].ok /\ \A j \in 1..(i - 1) : ~a[j].ok IN
              \A m \in 1..Len(models.list) :
                  /\ models.list[m].data = ncalls
                  /\ models.list[m].k_type = a[f].k_type
                  /\ models.list[m].variance = a[f].variance

\* C12: in every 'Random Local' variant and for every num_qual >= 0, each call
\* of the local optimiser starts from the first num_quant coordinates of the
\* argmax candidate and hands the wrapper that candidate's whole qualitative
\* assignment, and each returned point has num_quant + num_qual coordinates,
\* the last num_qual of them the candidate's qualitative coordinates.
C12_QualitativePartFixed ==
    ( /\ op \in {"EIMmixedoptimiser", "AEIMmixedoptimiser"}
      /\ pc \in {"done", "error"}
      /\ args.algorithm = "Random Local" ) =>
        /\ \A i \in 1..Len(ret.refine) :
              /\ ret.refine[i].x0 = SubSeq(ret.refine[i].cand, 1, num_quant)
              /\ ret.refine[i].qual = SubSeq(ret.refine[i].cand, num_quant + 1, input_dim)
        /\ (ret.kind = "return" /\ args.values = "None") =>
              \A i \in 1..Len(ret.x) :
                  /\ Len(ret.x[i]) = input_dim
                  /\ SubSeq(ret.x[i], num_quant + 1, input_dim)
                        = SubSeq(ret.refine[i].cand, num_quant + 1, input_dim)

====
